---- MODULE Spec2Model ----
(***************************************************************************)
(* A model of package apidiags: the Steps path representation, its JSON    *)
(* codec (Steps.MarshalJSON / Steps.UnmarshalJSON), the slice-backed       *)
(* Steps.AddStep, and the escaped-string Pointer constructors.             *)
(*                                                                         *)
(* Go strings, JSON literals and int64 values are all sequences of         *)
(* one-character tokens, so that encoding and decoding are computed the    *)
(* way encoding/json and strconv compute them.                             *)
(***************************************************************************)
EXTENDS Integers, Sequences, FiniteSets, TLC

VARIABLES heap, slot, wire, err, pc, ptr, segs

vars == <<heap, slot, wire, err, pc, ptr, segs>>

\* ------------------------------------------------------------------ bounds
\* longest Steps value the builder model grows
MaxSteps == 4
\* longest Steps value the round-trip model builds
MaxPath == 2
\* longest JSON array handed to UnmarshalJSON
MaxRecords == 2
\* most segments handed to a Pointer constructor
MaxSegs == 2

\* ----------------------------------------------------------------- helpers
SeqsUpTo(S, n) == UNION {[1..k -> S] : k \in 0..n}

MinOf(S) == CHOOSE x \in S : \A y \in S : x <= y

\* ------------------------------------------------------------- Go strings
\* A Go string is a sequence of tokens: "a" an ordinary character, "q" the
\* double quote, "uFFFD" the rune U+FFFD, "xFF" a byte that is not valid
\* UTF-8 (a Go string may hold any bytes).
StringValues == {<<>>, <<"a">>, <<"q">>, <<"xFF">>, <<"a", "xFF">>, <<"uFFFD">>}

ValidUTF8(s) == \A i \in 1..Len(s) : s[i] # "xFF"

\* ------------------------------------------------------------------ int64
Digits == {"0", "1", "2", "3", "4", "5", "6", "7", "8", "9"}

DigitVal(d) ==
    CASE d = "0" -> 0 [] d = "1" -> 1 [] d = "2" -> 2 [] d = "3" -> 3
      [] d = "4" -> 4 [] d = "5" -> 5 [] d = "6" -> 6 [] d = "7" -> 7
      [] d = "8" -> 8 [] d = "9" -> 9

\* An int64 is held as a sign token followed by its decimal digits (no
\* leading zeros, zero is <<"+", "0">>), so the full 64-bit range is kept.
MaxInt64Mag == <<"9","2","2","3","3","7","2","0","3","6","8","5","4","7","7","5","8","0","7">>

MinInt64Mag == <<"9","2","2","3","3","7","2","0","3","6","8","5","4","7","7","5","8","0","8">>

\* 2^53 + 1, the first integer a float64 cannot hold
Pow53Plus1 == <<"9","0","0","7","1","9","9","2","5","4","7","4","0","9","9","3">>

Int64Values == {<<"+", "0">>, <<"+", "7">>, <<"-", "1">>, <<"+">> \o Pow53Plus1,
                <<"+">> \o MaxInt64Mag, <<"-">> \o MinInt64Mag}

IsNeg(t) == Len(t) > 0 /\ t[1] = "-"

Mag(t) == IF IsNeg(t) THEN Tail(t) ELSE t

IsDigits(s) == Len(s) > 0 /\ \A i \in 1..Len(s) : s[i] \in Digits

\* a <= b for digit strings without leading zeros
MagLE(a, b) ==
    \/ Len(a) < Len(b)
    \/ /\ Len(a) = Len(b)
       /\ \/ a = b
          \/ \E i \in 1..Len(a) :
                /\ \A j \in 1..(i - 1) : a[j] = b[j]
                /\ DigitVal(a[i]) < DigitVal(b[i])

\* the int64 a sign and a magnitude denote (-0 is 0)
MkInt64(neg, mag) ==
    IF mag = <<"0">> THEN <<"+", "0">>
    ELSE (IF neg THEN <<"-">> ELSE <<"+">>) \o mag

\* A parser that accepts any integer literal, in range or not.
ParseIntNoRange(t) ==
    IF ~IsDigits(Mag(t))
    THEN [ok |-> FALSE, val |-> <<>>]
    ELSE [ok |-> TRUE, val |-> MkInt64(IsNeg(t), Mag(t))]

\* strconv.ParseInt(s, 10, 64) on the text of a json.Number: an optional sign
\* and digits only; a '.', an exponent or a value outside int64 is an error.
\* (The JSON grammar admits no leading zeros and no '+'.)
ParseInt(t) ==
    IF ~IsDigits(Mag(t))
    THEN [ok |-> FALSE, val |-> <<>>]
    ELSE IF ~MagLE(Mag(t), IF IsNeg(t) THEN MinInt64Mag ELSE MaxInt64Mag)
    THEN [ok |-> FALSE, val |-> <<>>]
    ELSE [ok |-> TRUE, val |-> MkInt64(IsNeg(t), Mag(t))]

\* the decimal text json.Marshal writes for an int64: digits, '-' if negative
FormatInt(v) == IF v[1] = "-" THEN v ELSE Tail(v)

\* ------------------------------------------------------------------ Steps
KnownKinds == {"body", "header", "url_param", "array_index", "object_property",
               "string_index"}

StringKinds == {"header", "url_param", "object_property"}

IndexKinds == {"array_index", "string_index"}

BodyStep == [type |-> "BodyStep", val |-> <<>>]

HeaderStep(s) == [type |-> "HeaderStep", val |-> s]

URLParamStep(s) == [type |-> "URLParamStep", val |-> s]

ArrayIndexStep(i) == [type |-> "ArrayIndexStep", val |-> i]

ObjectPropertyStep(s) == [type |-> "ObjectPropertyStep", val |-> s]

StringIndexStep(i) == [type |-> "StringIndexStep", val |-> i]

\* the zero value of the Step interface (an unused slot of a backing array)
NilStep == [type |-> "nil", val |-> <<>>]

StepValues ==
    {BodyStep}
      \cup {HeaderStep(s) : s \in StringValues}
      \cup {URLParamStep(s) : s \in {<<"a">>, <<"xFF">>}}
      \cup {ObjectPropertyStep(s) : s \in {<<"a">>, <<"q">>}}
      \cup {ArrayIndexStep(i) : i \in Int64Values}
      \cup {StringIndexStep(i) : i \in {<<"+", "0">>, <<"+">> \o MaxInt64Mag}}

\* ------------------------------------------------------------- JSON text
\* A JSON value is its type and the tokens of its literal.  A string literal
\* is a sequence of units: "a" and "uFFFD" written raw, "\\q" the escape \",
\* "\\ufffd" the escape for U+FFFD, "xFF" a raw byte that is not valid UTF-8.
\* A number literal is its characters.
JAbsent == [t |-> "absent", lit |-> <<>>]

JNull == [t |-> "null", lit |-> <<>>]

JString(lit) == [t |-> "string", lit |-> lit]

JNumber(lit) == [t |-> "number", lit |-> lit]

JBool == [t |-> "bool", lit |-> <<>>]

JObject == [t |-> "object", lit |-> <<>>]

\* an element of the array: an object with its kind and value members, or a
\* value of another JSON type
JRecord(kind, value) == [el |-> "object", kind |-> kind, value |-> value]

JElement(t) == [el |-> t, kind |-> JAbsent, value |-> JAbsent]

JArray(elems) == [top |-> "array", elems |-> elems]

JTop(t) == [top |-> t, elems |-> <<>>]

\* encoding/json's string encoder: the quote is escaped, a byte that is not
\* valid UTF-8 is written as the escape for U+FFFD, the rest is written raw.
EncUnit(c) ==
    CASE c = "q" -> "\\q"
      [] c = "xFF" -> "\\ufffd"
      [] OTHER -> c

appendString(s) == [i \in 1..Len(s) |-> EncUnit(s[i])]

\* encoding/json's unquote: escapes are resolved, a raw byte that is not
\* valid UTF-8 becomes U+FFFD.
DecUnit(u) ==
    CASE u = "\\q" -> "q"
      [] u = "\\ufffd" -> "uFFFD"
      [] u = "xFF" -> "uFFFD"
      [] OTHER -> u

unquote(lit) == [i \in 1..Len(lit) |-> DecUnit(lit[i])]

\* ------------------------------------------------------------ genericStep
\* Value is a *any: its dynamic type and its tokens ("nil" is a nil pointer).
GoNil == [t |-> "nil", v |-> <<>>]

GoString(s) == [t |-> "string", v |-> s]

GoInt64(i) == [t |-> "int64", v |-> i]

genericStep(kind, value) == [Kind |-> kind, Value |-> value]

\* ------------------------------------------------------------------ errors
NoError == [type |-> "nil", pos |-> -1, detail |-> ""]

\* fmt.Errorf("error parsing step %d: ...", pos, ...) and the errors of
\* encoding/json (pos is then the index of the element at the error's Offset)
Error(type, pos, detail) == [type |-> type, pos |-> pos, detail |-> detail]

\* ------------------------------------------------------------ MarshalJSON
\* MarshalJSON with two cases of the switch sharing a kind
StepToGenericSharedKind(step) ==
    CASE step.type = "BodyStep" -> genericStep("body", GoNil)
      [] step.type = "HeaderStep" -> genericStep("header", GoString(step.val))
      [] step.type = "URLParamStep" -> genericStep("header", GoString(step.val))
      [] step.type = "ArrayIndexStep" -> genericStep("array_index", GoInt64(step.val))
      [] step.type = "ObjectPropertyStep" ->
            genericStep("object_property", GoString(step.val))
      [] step.type = "StringIndexStep" -> genericStep("array_index", GoInt64(step.val))
      [] OTHER -> genericStep("", GoNil)

\* the switch of MarshalJSON on one step
StepToGeneric(step) ==
    CASE step.type = "BodyStep" -> genericStep("body", GoNil)
      [] step.type = "HeaderStep" -> genericStep("header", GoString(step.val))
      [] step.type = "URLParamStep" -> genericStep("url_param", GoString(step.val))
      [] step.type = "ArrayIndexStep" -> genericStep("array_index", GoInt64(step.val))
      [] step.type = "ObjectPropertyStep" ->
            genericStep("object_property", GoString(step.val))
      [] step.type = "StringIndexStep" -> genericStep("string_index", GoInt64(step.val))
      [] OTHER -> genericStep("", GoNil)

\* json.Marshal of any(string) and any(int64)
MarshalValue(v) ==
    CASE v.t = "string" -> JString(appendString(v.v))
      [] v.t = "int64" -> JNumber(FormatInt(v.v))
      [] OTHER -> JNull

\* a genericStep whose Value is not omitempty: a nil Value is written as null
MarshalGenericNoOmit(g) ==
    JRecord(IF g.Kind = "" THEN JAbsent ELSE JString(<<g.Kind>>),
            IF g.Value.t = "nil" THEN JNull ELSE MarshalValue(g.Value))

\* json.Marshal of one genericStep: both members are omitempty
MarshalGeneric(g) ==
    JRecord(IF g.Kind = "" THEN JAbsent ELSE JString(<<g.Kind>>),
            IF g.Value.t = "nil" THEN JAbsent ELSE MarshalValue(g.Value))

\* Steps.MarshalJSON: the error and the bytes (genSteps is made, never nil,
\* so no steps are written as [] and not as null)
MarshalJSON(steps) ==
    LET unknown == {i \in 1..Len(steps) : StepToGeneric(steps[i]).Kind = ""}
    IN  IF unknown # {}
        THEN [err |-> Error("unknown step type", MinOf(unknown) - 1, ""),
              out |-> JTop("none")]
        ELSE [err |-> NoError,
              out |-> JArray([i \in 1..Len(steps) |->
                                 MarshalGeneric(StepToGeneric(steps[i]))])]

\* ---------------------------------------------------------- UnmarshalJSON
\* the Go value the decoder stores in Value (UseNumber keeps a number as the
\* text of its literal)
DecodeValue(j) ==
    CASE j.t \in {"absent", "null"} -> GoNil
      [] j.t = "string" -> GoString(unquote(j.lit))
      [] j.t = "number" -> [t |-> "json.Number", v |-> j.lit]
      [] j.t = "bool" -> [t |-> "bool", v |-> <<>>]
      [] OTHER -> [t |-> "map[string]interface {}", v |-> <<>>]

\* an element the decoder cannot store in a genericStep
TypeMismatch(e) ==
    \/ e.el \notin {"object", "null"}
    \/ e.el = "object" /\ e.kind.t \notin {"absent", "null", "string"}

DecodeElement(e) ==
    IF e.el = "null" THEN genericStep("", GoNil)
    ELSE genericStep(IF e.kind.t = "string" /\ e.kind.lit # <<>>
                     THEN e.kind.lit[1] ELSE "",
                     DecodeValue(e.value))

\* dec.Decode(&genSteps): the error and the records
Decode(in) ==
    CASE in.top = "syntax" ->
            [err |-> Error("SyntaxError", 0, ""), gen |-> <<>>]
      [] in.top = "null" -> [err |-> NoError, gen |-> <<>>]
      [] in.top = "array" ->
            LET bad == {i \in 1..Len(in.elems) : TypeMismatch(in.elems[i])}
            IN  IF bad # {}
                THEN [err |-> Error("UnmarshalTypeError", MinOf(bad) - 1, ""),
                      gen |-> <<>>]
                ELSE [err |-> NoError,
                      gen |-> [i \in 1..Len(in.elems) |-> DecodeElement(in.elems[i])]]
      [] OTHER -> [err |-> Error("UnmarshalTypeError", 0, ""), gen |-> <<>>]

\* json.Number.Int64
Int64(n) == ParseInt(n)

\* a Value that is an any and not a *any: a missing value is then a nil
\* interface, and fails the type assertion like any other wrong type
DecodeStringKindNoNilCheck(g, pos) ==
    IF g.Value.t # "string"
    THEN [err |-> Error("wanted string", pos, g.Value.t), step |-> NilStep]
    ELSE [err |-> NoError,
          step |-> CASE g.Kind = "header" -> HeaderStep(g.Value.v)
                     [] g.Kind = "url_param" -> URLParamStep(g.Value.v)
                     [] OTHER -> ObjectPropertyStep(g.Value.v)]

\* the cases "header", "url_param" and "object_property"
DecodeStringKind(g, pos) ==
    IF g.Value.t = "nil"
    THEN [err |-> Error("no value", pos, ""), step |-> NilStep]
    ELSE IF g.Value.t # "string"
    THEN [err |-> Error("wanted string", pos, g.Value.t), step |-> NilStep]
    ELSE [err |-> NoError,
          step |-> CASE g.Kind = "header" -> HeaderStep(g.Value.v)
                     [] g.Kind = "url_param" -> URLParamStep(g.Value.v)
                     [] OTHER -> ObjectPropertyStep(g.Value.v)]

\* the cases "array_index" and "string_index"
DecodeIndexKind(g, pos) ==
    IF g.Value.t = "nil"
    THEN [err |-> Error("no value", pos, ""), step |-> NilStep]
    ELSE IF g.Value.t # "json.Number"
    THEN [err |-> Error("wanted json.Number", pos, g.Value.t), step |-> NilStep]
    ELSE IF ~Int64(g.Value.v).ok
    THEN [err |-> Error("strconv", pos, ""), step |-> NilStep]
    ELSE [err |-> NoError,
          step |-> IF g.Kind = "array_index"
                   THEN ArrayIndexStep(Int64(g.Value.v).val)
                   ELSE StringIndexStep(Int64(g.Value.v).val)]

\* a default case that takes the record for the body
DecodeUnknownKindAsBody(g, pos) == [err |-> NoError, step |-> BodyStep]

\* the default case
DecodeUnknownKind(g, pos) ==
    [err |-> Error("unexpected step kind", pos, g.Kind), step |-> NilStep]

\* the body of the loop of UnmarshalJSON for the record at position pos
DecodeStep(g, pos) ==
    CASE g.Kind = "body" -> [err |-> NoError, step |-> BodyStep]
      [] g.Kind \in StringKinds -> DecodeStringKind(g, pos)
      [] g.Kind \in IndexKinds -> DecodeIndexKind(g, pos)
      [] OTHER -> DecodeUnknownKind(g, pos)

\* a loop that puts each step in front of the results
RECURSIVE DecodeLoopPrepend(_, _, _)
DecodeLoopPrepend(gen, i, results) ==
    IF i > Len(gen) THEN [err |-> NoError, results |-> results]
    ELSE LET r == DecodeStep(gen[i], i - 1)
         IN  IF r.err # NoError THEN [err |-> r.err, results |-> results]
             ELSE DecodeLoopPrepend(gen, i + 1, <<r.step>> \o results)

\* a loop that notes an error and goes on, returning the last one
RECURSIVE DecodeLoopLastError(_, _, _)
DecodeLoopLastError(gen, i, results) ==
    IF i > Len(gen) THEN [err |-> NoError, results |-> results]
    ELSE LET r == DecodeStep(gen[i], i - 1)
             rest == DecodeLoopLastError(gen, i + 1, results)
         IN  IF rest.err # NoError THEN rest
             ELSE IF r.err # NoError THEN [err |-> r.err, results |-> results]
             ELSE DecodeLoopLastError(gen, i + 1, Append(results, r.step))

\* the loop of UnmarshalJSON from record i on: the error it returns with,
\* and the local results at that point
RECURSIVE DecodeLoop(_, _, _)
DecodeLoop(gen, i, results) ==
    IF i > Len(gen) THEN [err |-> NoError, results |-> results]
    ELSE LET r == DecodeStep(gen[i], i - 1)
         IN  IF r.err # NoError THEN [err |-> r.err, results |-> results]
             ELSE DecodeLoop(gen, i + 1, Append(results, r.step))

\* an UnmarshalJSON that stores the results as it goes
UnmarshalJSONStoresPrefix(in) ==
    LET d == Decode(in)
        l == DecodeLoop(d.gen, 1, <<>>)
    IN  IF d.err # NoError
        THEN [err |-> d.err, assigned |-> FALSE, results |-> <<>>]
        ELSE [err |-> l.err, assigned |-> TRUE, results |-> l.results]

\* Steps.UnmarshalJSON: the error, whether *steps was assigned, and the value
UnmarshalJSON(in) ==
    LET d == Decode(in)
        l == DecodeLoop(d.gen, 1, <<>>)
    IN  IF d.err # NoError
        THEN [err |-> d.err, assigned |-> FALSE, results |-> <<>>]
        ELSE IF l.err # NoError
        THEN [err |-> l.err, assigned |-> FALSE, results |-> <<>>]
        ELSE [err |-> NoError, assigned |-> TRUE, results |-> l.results]

\* ------------------------------------------------------ slices and memory
\* A Steps value is a slice header: the address of its backing array (0 for
\* the nil slice, -1 for the zero-size allocation of an empty slice), its
\* length and its capacity.  heap maps an address to the backing array there.
VarNames == {"S", "P", "Q"}

Addrs == 1..Cardinality(VarNames)

NilSteps == [arr |-> 0, len |-> 0, cap |-> 0]

EmptyHeap == [a \in Addrs |-> <<>>]

\* the Steps a header denotes
View(h, s) == IF s.arr \in Addrs THEN SubSeq(h[s.arr], 1, s.len) ELSE <<>>

\* addresses the variables other than t refer to
Live(t) == {slot[u].arr : u \in VarNames \ {t}} \cap Addrs

\* the allocator: an address no live variable refers to
Alloc(live) == MinOf(Addrs \ live)

\* the collector: an array no variable refers to is gone
Sweep(h, sl) ==
    [a \in Addrs |-> IF a \in {sl[u].arr : u \in VarNames} THEN h[a] ELSE <<>>]

\* the capacity append grows a full slice of 16-byte elements to (the gc
\* runtime's growslice: double, rounded to a size class)
GrowCap(cap) == IF cap = 0 THEN 1 ELSE 2 * cap

\* append(steps, step): in place when there is room, else into a new array
append(h, live, s, step) ==
    IF s.len < s.cap
    THEN [heap |-> [h EXCEPT ![s.arr][s.len + 1] = step],
          hdr |-> [s EXCEPT !.len = s.len + 1]]
    ELSE LET a == Alloc(live)
             old == View(h, s)
         IN  [heap |-> [h EXCEPT ![a] =
                          [i \in 1..GrowCap(s.cap) |->
                              IF i <= s.len THEN old[i]
                              ELSE IF i = s.len + 1 THEN step ELSE NilStep]],
              hdr |-> [arr |-> a, len |-> s.len + 1, cap |-> GrowCap(s.cap)]]

\* Steps.AddStep
AddStep(h, live, steps, step) == append(h, live, steps, step)

\* a composite literal Steps{...}, or make(Steps, 0, n) filled to n
MakeSteps(h, live, contents) ==
    IF contents = <<>>
    THEN [heap |-> h, hdr |-> [arr |-> -1, len |-> 0, cap |-> 0]]
    ELSE [heap |-> [h EXCEPT ![Alloc(live)] = contents],
          hdr |-> [arr |-> Alloc(live), len |-> Len(contents),
                   cap |-> Len(contents)]]

BodyPath(h, live) == MakeSteps(h, live, <<BodyStep>>)

HeaderPath(h, live, header) == MakeSteps(h, live, <<HeaderStep(header)>>)

URLParamPath(h, live, param) == MakeSteps(h, live, <<URLParamStep(param)>>)

\* ------------------------------------------------------------- operations
\* pc is the last call made and the variable it assigned
Called(op, t) == [op |-> op, t |-> t]

Assign(t, r) ==
    /\ slot' = [slot EXCEPT ![t] = r.hdr]
    /\ heap' = Sweep(r.heap, [slot EXCEPT ![t] = r.hdr])

\* t = BodyPath()
BodyPathCall(t) ==
    /\ Assign(t, BodyPath(heap, Live(t)))
    /\ pc' = Called("BodyPath", t)
    /\ UNCHANGED <<wire, err, ptr, segs>>

\* t = HeaderPath(header)
HeaderPathCall(t, header) ==
    /\ Assign(t, HeaderPath(heap, Live(t), header))
    /\ pc' = Called("HeaderPath", t)
    /\ UNCHANGED <<wire, err, ptr, segs>>

\* t = URLParamPath(param)
URLParamPathCall(t, param) ==
    /\ Assign(t, URLParamPath(heap, Live(t), param))
    /\ pc' = Called("URLParamPath", t)
    /\ UNCHANGED <<wire, err, ptr, segs>>

\* t = s.AddStep(step), for a result of at most max steps
AddStepCall(t, s, step, max) ==
    /\ slot[s].len < max
    /\ Assign(t, AddStep(heap, Live(t), slot[s], step))
    /\ pc' = Called("AddStep", t)
    /\ UNCHANGED <<wire, err, ptr, segs>>

\* wire, err = s.MarshalJSON()
MarshalJSONCall(s) ==
    /\ wire' = MarshalJSON(View(heap, slot[s])).out
    /\ err' = MarshalJSON(View(heap, slot[s])).err
    /\ pc' = Called("MarshalJSON", s)
    /\ UNCHANGED <<heap, slot, ptr, segs>>

\* err = (&t).UnmarshalJSON(in)
UnmarshalJSONCall(t, in) ==
    /\ wire' = in
    /\ err' = UnmarshalJSON(in).err
    /\ IF UnmarshalJSON(in).assigned
       THEN Assign(t, MakeSteps(heap, Live(t), UnmarshalJSON(in).results))
       ELSE UNCHANGED <<heap, slot>>
    /\ pc' = Called("UnmarshalJSON", t)
    /\ UNCHANGED <<ptr, segs>>

\* --------------------------------------------------------------- Pointers
\* strings.Replace(s, old, new, -1) for a one-character old
RECURSIVE ReplaceAll(_, _, _)
ReplaceAll(s, old, new) ==
    IF s = <<>> THEN <<>>
    ELSE (IF Head(s) = old THEN new ELSE <<Head(s)>>) \o ReplaceAll(Tail(s), old, new)

\* escaping in the wrong order: the '~' of an escaped '/' is escaped again
EscapeSlashFirst(token) ==
    ReplaceAll(ReplaceAll(token, "/", <<"~", "1">>), "~", <<"~", "0">>)

\* jsonpointer.Escape: ~ becomes ~0, then / becomes ~1
Escape(token) ==
    ReplaceAll(ReplaceAll(token, "~", <<"~", "0">>), "/", <<"~", "1">>)

\* strings.Join
RECURSIVE Join(_, _)
Join(elems, sep) ==
    IF elems = <<>> THEN <<>>
    ELSE IF Len(elems) = 1 THEN elems[1]
    ELSE elems[1] \o sep \o Join(Tail(elems), sep)

buildPointerPath(segments) ==
    IF Len(segments) < 1 THEN <<>>
    ELSE <<"/">> \o Join([i \in 1..Len(segments) |-> Escape(segments[i])], <<"/">>)

NewBodyPointer(segments) == [Field |-> "body", Path |-> buildPointerPath(segments)]

NewURLPointer(segments) == [Field |-> "url", Path |-> buildPointerPath(segments)]

NewHeaderPointer(segments) == [Field |-> "header", Path |-> buildPointerPath(segments)]

NewBodyPointerCall(segments) ==
    /\ ptr' = NewBodyPointer(segments)
    /\ segs' = segments
    /\ pc' = Called("NewBodyPointer", "")
    /\ UNCHANGED <<heap, slot, wire, err>>

NewURLPointerCall(segments) ==
    /\ ptr' = NewURLPointer(segments)
    /\ segs' = segments
    /\ pc' = Called("NewURLPointer", "")
    /\ UNCHANGED <<heap, slot, wire, err>>

NewHeaderPointerCall(segments) ==
    /\ ptr' = NewHeaderPointer(segments)
    /\ segs' = segments
    /\ pc' = Called("NewHeaderPointer", "")
    /\ UNCHANGED <<heap, slot, wire, err>>

\* ------------------------------------------------------------------ inputs
\* the steps and names the builder model appends
BuildSteps == {ObjectPropertyStep(<<"a">>), ArrayIndexStep(<<"+", "0">>)}

BuildNames == {<<"a">>}

\* number literals: every int64 of the model, the first integers outside
\* int64, a fraction, an integer written with a fraction or an exponent, -0
NumberLits ==
    {FormatInt(i) : i \in Int64Values}
      \cup {MinInt64Mag, <<"-", "9","2","2","3","3","7","2","0","3","6","8","5","4","7","7","5","8","0","9">>,
            <<"1", ".", "5">>, <<"1", ".", "0">>, <<"1", "e", "2">>, <<"-", "0">>}

Recs(kinds, values) == {JRecord(JString(<<k>>), v) : k \in kinds, v \in values}

Elements ==
    Recs({"header", "array_index"},
         {JAbsent, JNull, JString(<<"a">>), JNumber(<<"0">>), JBool})
      \cup Recs({"body"}, {JAbsent, JNull, JString(<<"a">>), JNumber(<<"0">>)})
      \cup Recs({"url_param", "object_property"},
                {JAbsent, JString(<<"a">>), JNumber(<<"0">>)})
      \cup Recs({"string_index"},
                {JAbsent, JString(<<"a">>), JNumber(<<"0">>), JNumber(MinInt64Mag),
                 JNumber(<<"1", ".", "5">>)})
      \cup Recs({"array_index"}, {JNumber(n) : n \in NumberLits})
      \cup Recs({"header"}, {JString(<<"\\q">>), JString(<<"xFF">>),
                             JString(<<"\\ufffd">>)})
      \cup Recs({"bogus"}, {JAbsent, JString(<<"a">>)})
      \cup {JRecord(JString(<<>>), JAbsent), JRecord(JAbsent, JAbsent),
            JRecord(JAbsent, JString(<<"a">>)), JRecord(JNumber(<<"5">>), JAbsent),
            JElement("null"), JElement("number")}

Inputs ==
    {JArray(e) : e \in SeqsUpTo(Elements, MaxRecords)}
      \cup {JTop("null"), JTop("number"), JTop("syntax")}

\* what the builder model decodes
BuildInputs ==
    {JArray(<<>>),
     JArray(<<JRecord(JString(<<"body">>), JAbsent),
              JRecord(JString(<<"array_index">>), JNumber(<<"0">>))>>)}

\* the segments handed to the Pointer constructors
SegmentValues == {<<>>, <<"a">>, <<"~">>, <<"/">>, <<"~", "0">>, <<"~", "1">>,
                  <<"a", "/", "a">>}

SegmentLists == SeqsUpTo(SegmentValues, MaxSegs)

\* --------------------------------------------------------- specifications
Init ==
    /\ heap = EmptyHeap
    /\ slot = [v \in VarNames |-> NilSteps]
    /\ wire = JTop("none")
    /\ err = NoError
    /\ pc = Called("init", "")
    /\ ptr = [Field |-> "", Path |-> <<>>]
    /\ segs = <<>>

\* a program that seeds S once, from a constructor or by decoding, and then
\* assigns S.AddStep(step) to S, P or Q
Seeding == pc.op = "init"

Next ==
    \/ Seeding /\ BodyPathCall("S")
    \/ Seeding /\ \E n \in BuildNames : HeaderPathCall("S", n)
    \/ Seeding /\ \E n \in BuildNames : URLParamPathCall("S", n)
    \/ Seeding /\ \E in \in BuildInputs : UnmarshalJSONCall("S", in)
    \/ \E t \in VarNames, step \in BuildSteps : AddStepCall(t, "S", step, MaxSteps)

Spec == Init /\ [][Next]_vars

\* a program that builds S, encodes it and decodes the bytes into P
Building == pc.op \notin {"MarshalJSON", "UnmarshalJSON"}

NextRoundTrip ==
    \/ Building /\ BodyPathCall("S")
    \/ Building /\ \E n \in StringValues : HeaderPathCall("S", n)
    \/ Building /\ \E n \in StringValues : URLParamPathCall("S", n)
    \/ Building /\ \E step \in StepValues : AddStepCall("S", "S", step, MaxPath)
    \/ Building /\ MarshalJSONCall("S")
    \/ pc.op = "MarshalJSON" /\ err = NoError /\ UnmarshalJSONCall("P", wire)

SpecRoundTrip == Init /\ [][NextRoundTrip]_vars

\* a program that decodes one input into P, which is nil or holds a path
InitDecode ==
    /\ \E r \in {[heap |-> EmptyHeap, hdr |-> NilSteps],
                 AddStep(BodyPath(EmptyHeap, {}).heap, {}, BodyPath(EmptyHeap, {}).hdr,
                         ObjectPropertyStep(<<"a">>))} :
          /\ heap = r.heap
          /\ slot = [v \in VarNames |-> IF v = "P" THEN r.hdr ELSE NilSteps]
    /\ wire = JTop("none")
    /\ err = NoError
    /\ pc = Called("init", "")
    /\ ptr = [Field |-> "", Path |-> <<>>]
    /\ segs = <<>>

NextDecode == pc.op = "init" /\ \E in \in Inputs : UnmarshalJSONCall("P", in)

SpecDecode == InitDecode /\ [][NextDecode]_vars

\* a program that builds Pointers
NextPointer ==
    \E segments \in SegmentLists :
        \/ NewBodyPointerCall(segments)
        \/ NewURLPointerCall(segments)
        \/ NewHeaderPointerCall(segments)

SpecPointer == Init /\ [][NextPointer]_vars

\* ------------------------------------------------------------------ claims
\* the Steps a variable holds now, and after the step
Now(v) == View(heap, slot[v])

After(v) == View(heap', slot'[v])

\* C2: AddStep is non-mutating.  A call t = S.AddStep(step) returns S
\* followed by one step, and changes the Steps of no variable other than t:
\* S keeps its length and elements, and no value returned earlier is changed.
C2_AddStepNonMutating ==
    [][pc'.op = "AddStep" =>
          /\ Len(After(pc'.t)) = Len(Now("S")) + 1
          /\ SubSeq(After(pc'.t), 1, Len(Now("S"))) = Now("S")
          /\ \A v \in VarNames \ {pc'.t} : After(v) = Now(v)]_vars

\* the string a JSON string literal denotes
StringDenoted(lit) ==
    [i \in 1..Len(lit) |->
        CASE lit[i] = "\\q" -> "q" [] lit[i] = "\\ufffd" -> "uFFFD" [] OTHER -> lit[i]]

\* a number literal that is the plain decimal notation of the int64 v
DenotesInt(lit, v) == IsDigits(Mag(lit)) /\ MkInt64(IsNeg(lit), Mag(lit)) = v

\* a Go string with every byte that is not valid UTF-8 replaced by U+FFFD
ToValidUTF8(s) == [i \in 1..Len(s) |-> IF s[i] = "xFF" THEN "uFFFD" ELSE s[i]]

StringSteps == {"HeaderStep", "URLParamStep", "ObjectPropertyStep"}

IndexSteps == {"ArrayIndexStep", "StringIndexStep"}

\* a step with its string payload made valid UTF-8
Coerced(step) ==
    IF step.type \in StringSteps THEN [step EXCEPT !.val = ToValidUTF8(step.val)]
    ELSE step

KindOfStep(step) ==
    CASE step.type = "BodyStep" -> "body"
      [] step.type = "HeaderStep" -> "header"
      [] step.type = "URLParamStep" -> "url_param"
      [] step.type = "ArrayIndexStep" -> "array_index"
      [] step.type = "ObjectPropertyStep" -> "object_property"
      [] step.type = "StringIndexStep" -> "string_index"

\* the record e is the wire record of step, carrying the payload val
IsRecordOf(e, step, val) ==
    /\ e.el = "object"
    /\ e.kind = JString(<<KindOfStep(step)>>)
    /\ CASE step.type = "BodyStep" -> e.value = JAbsent
         [] step.type \in StringSteps ->
               e.value.t = "string" /\ StringDenoted(e.value.lit) = val
         [] step.type \in IndexSteps ->
               e.value.t = "number" /\ DenotesInt(e.value.lit, val)

Encoded == pc.op = "MarshalJSON"

RoundTripped == pc.op = "UnmarshalJSON"

\* C1 as stated: every Steps S encodes without error, the bytes decode
\* without error, and the decoded Steps equal S.
C1_RoundTripAnyPayload ==
    /\ Encoded => err = NoError
    /\ RoundTripped => err = NoError /\ Now("P") = Now("S")

\* C1 amended: encoding and decoding succeed for every S; the decoded Steps
\* have the length of S and at every position the variant and payload of S,
\* except that a byte of a string payload that is not valid UTF-8 comes back
\* as U+FFFD; so S round-trips exactly when its string payloads are valid
\* UTF-8.
C1_RoundTrip ==
    /\ Encoded => err = NoError
    /\ RoundTripped =>
          /\ err = NoError
          /\ Len(Now("P")) = Len(Now("S"))
          /\ \A i \in 1..Len(Now("S")) : Now("P")[i] = Coerced(Now("S")[i])
          /\ (\A i \in 1..Len(Now("S")) : ValidUTF8(Now("S")[i].val))
                => Now("P") = Now("S")

C1_Witness ==
    /\ RoundTripped
    /\ Now("S") = <<URLParamStep(<<"a">>), StringIndexStep(<<"+">> \o MaxInt64Mag)>>
    /\ Now("P") = Now("S")

\* C7 as stated: the bytes are an array of one record per step, in order,
\* record i having the kind of step i and its payload as value (no value
\* member for Body); no steps encode to [].
C7_EncodeMapsPayload ==
    Encoded =>
        /\ err = NoError
        /\ wire.top = "array"
        /\ Len(wire.elems) = Len(Now("S"))
        /\ \A i \in 1..Len(Now("S")) :
              IsRecordOf(wire.elems[i], Now("S")[i], Now("S")[i].val)

\* C7 amended: as stated, except that the value written for a string payload
\* is the payload with every byte that is not valid UTF-8 replaced by U+FFFD
\* (the payload itself when it is valid UTF-8).
C7_EncodeMap ==
    Encoded =>
        /\ err = NoError
        /\ wire.top = "array"
        /\ Len(wire.elems) = Len(Now("S"))
        /\ \A i \in 1..Len(Now("S")) :
              IsRecordOf(wire.elems[i], Now("S")[i], Coerced(Now("S")[i]).val)

C7_Witness ==
    /\ Encoded
    /\ Now("S") = <<BodyStep, ArrayIndexStep(<<"-", "1">>)>>
    /\ wire = JArray(<<JRecord(JString(<<"body">>), JAbsent),
                       JRecord(JString(<<"array_index">>), JNumber(<<"-", "1">>))>>)

\* ------------------------------------------------- claims about decoding
Decoded == pc.op = "UnmarshalJSON"

\* an element the JSON parse stores in a generic record: an object (or null)
\* whose kind, if any, is a string (or null)
IsRecord(e) ==
    /\ e.el \in {"object", "null"}
    /\ e.el = "object" => e.kind.t \in {"absent", "null", "string"}

\* the input is an array that parses into records
Parsed == wire.top = "array" /\ \A i \in 1..Len(wire.elems) : IsRecord(wire.elems[i])

\* the kind of a record ("" when absent, null or empty)
KindText(e) ==
    IF e.el = "object" /\ e.kind.t = "string" /\ e.kind.lit # <<>>
    THEN e.kind.lit[1] ELSE ""

HasValue(e) == e.el = "object" /\ e.value.t \notin {"absent", "null"}

\* the number a JSON number literal denotes: sign, integer part, fraction
\* part and (unsigned) exponent
PosOf(s, c) ==
    IF \E i \in 1..Len(s) : s[i] = c THEN MinOf({i \in 1..Len(s) : s[i] = c}) ELSE 0

Mantissa(lit) ==
    IF PosOf(Mag(lit), "e") = 0 THEN Mag(lit)
    ELSE SubSeq(Mag(lit), 1, PosOf(Mag(lit), "e") - 1)

ExpDigits(lit) ==
    IF PosOf(Mag(lit), "e") = 0 THEN <<>>
    ELSE SubSeq(Mag(lit), PosOf(Mag(lit), "e") + 1, Len(Mag(lit)))

IntPart(lit) ==
    IF PosOf(Mantissa(lit), ".") = 0 THEN Mantissa(lit)
    ELSE SubSeq(Mantissa(lit), 1, PosOf(Mantissa(lit), ".") - 1)

FracPart(lit) ==
    IF PosOf(Mantissa(lit), ".") = 0 THEN <<>>
    ELSE SubSeq(Mantissa(lit), PosOf(Mantissa(lit), ".") + 1, Len(Mantissa(lit)))

RECURSIVE NatOf(_)
NatOf(digits) ==
    IF digits = <<>> THEN 0
    ELSE 10 * NatOf(SubSeq(digits, 1, Len(digits) - 1)) + DigitVal(digits[Len(digits)])

RECURSIVE StripTrailingZeros(_)
StripTrailingZeros(d) ==
    IF d # <<>> /\ d[Len(d)] = "0" THEN StripTrailingZeros(SubSeq(d, 1, Len(d) - 1))
    ELSE d

RECURSIVE StripLeadingZeros(_)
StripLeadingZeros(d) ==
    IF Len(d) > 1 /\ d[1] = "0" THEN StripLeadingZeros(Tail(d)) ELSE d

\* the literal denotes an integer
IntegerValued(lit) == Len(StripTrailingZeros(FracPart(lit))) <= NatOf(ExpDigits(lit))

\* the digits of that integer
IntegerMag(lit) ==
    StripLeadingZeros(
        IntPart(lit) \o StripTrailingZeros(FracPart(lit))
          \o [i \in 1..(NatOf(ExpDigits(lit)) - Len(StripTrailingZeros(FracPart(lit)))) |-> "0"])

\* the literal denotes an integer that an int64 can hold
DenotesInt64(lit) ==
    /\ IntegerValued(lit)
    /\ MagLE(IntegerMag(lit), IF IsNeg(lit) THEN MinInt64Mag ELSE MaxInt64Mag)

DenotedInt64(lit) == MkInt64(IsNeg(lit), IntegerMag(lit))

\* the literal is written as an integer: no fraction part and no exponent
PlainInteger(lit) == IsDigits(Mag(lit))

\* the record satisfies the rule of its kind
ValidRecord(e) ==
    CASE KindText(e) = "body" -> TRUE
      [] KindText(e) \in StringKinds -> HasValue(e) /\ e.value.t = "string"
      [] KindText(e) \in IndexKinds ->
            /\ HasValue(e) /\ e.value.t = "number"
            /\ PlainInteger(e.value.lit) /\ DenotesInt64(e.value.lit)
      [] OTHER -> FALSE

\* the records before position p (1-based) are valid
ValidBefore(p) == \A q \in 1..(p - 1) : ValidRecord(wire.elems[q])

\* the step a valid record stands for
StepFor(e) ==
    CASE KindText(e) = "body" -> BodyStep
      [] KindText(e) = "header" -> HeaderStep(StringDenoted(e.value.lit))
      [] KindText(e) = "url_param" -> URLParamStep(StringDenoted(e.value.lit))
      [] KindText(e) = "object_property" ->
            ObjectPropertyStep(StringDenoted(e.value.lit))
      [] KindText(e) = "array_index" -> ArrayIndexStep(DenotedInt64(e.value.lit))
      [] KindText(e) = "string_index" -> StringIndexStep(DenotedInt64(e.value.lit))

\* C3: decode fails as a unit.  A call of UnmarshalJSON that returns an error
\* leaves the destination exactly as it was (the same slice, the same steps),
\* so no prefix of decoded steps is visible; the destination changes only
\* when no error is returned.
C3_FailsAsUnit ==
    [][pc'.op = "UnmarshalJSON" =>
          /\ err' # NoError => slot' = slot /\ After("P") = Now("P")
          /\ (slot' # slot \/ After("P") # Now("P")) =>
                err' = NoError /\ Len(After("P")) = Len(wire'.elems)]_vars

C3_Witness ==
    /\ Decoded
    /\ wire = JArray(<<JRecord(JString(<<"body">>), JAbsent),
                       JRecord(JString(<<"header">>), JAbsent)>>)
    /\ err = Error("no value", 1, "")
    /\ Now("P") = <<BodyStep, ObjectPropertyStep(<<"a">>)>>

IndexOutcome(p, accepted) ==
    LET e == wire.elems[p]
    IN  IF accepted
        THEN /\ err = NoError \/ err.pos > p - 1
             /\ err = NoError =>
                   /\ Now("P")[p].val = DenotedInt64(e.value.lit)
                   /\ Now("P")[p].type = IF KindText(e) = "array_index"
                                         THEN "ArrayIndexStep" ELSE "StringIndexStep"
        ELSE err = Error("strconv", p - 1, "")

IndexRecordAt(p) ==
    /\ ValidBefore(p)
    /\ KindText(wire.elems[p]) \in IndexKinds
    /\ wire.elems[p].value.t = "number"

\* C6 as stated: an index record with a number literal decodes exactly when
\* the literal carries no fraction part and denotes an integer an int64 can
\* hold, and then to that integer; otherwise decoding fails at its position.
C6_IntegerValuedAccepted ==
    (Decoded /\ Parsed) =>
        \A p \in 1..Len(wire.elems) :
            IndexRecordAt(p) =>
                IndexOutcome(p, /\ FracPart(wire.elems[p].value.lit) = <<>>
                                /\ DenotesInt64(wire.elems[p].value.lit))

\* C6 amended: an index record with a number literal decodes exactly when
\* the literal is written as an integer (an optional minus and digits, no
\* fraction part and no exponent) and is within int64, and then to exactly
\* that integer; any other literal, 1.0 and 1e2 included, fails at its
\* position.
C6_PlainIntegerAccepted ==
    (Decoded /\ Parsed) =>
        \A p \in 1..Len(wire.elems) :
            IndexRecordAt(p) =>
                IndexOutcome(p, /\ PlainInteger(wire.elems[p].value.lit)
                                /\ DenotesInt64(wire.elems[p].value.lit))

C6_Witness ==
    /\ Decoded
    /\ wire = JArray(<<JRecord(JString(<<"array_index">>), JNumber(Pow53Plus1)),
                       JRecord(JString(<<"array_index">>),
                               JNumber(<<"-">> \o MinInt64Mag))>>)
    /\ err = NoError
    /\ Now("P") = <<ArrayIndexStep(<<"+">> \o Pow53Plus1),
                    ArrayIndexStep(<<"-">> \o MinInt64Mag)>>

\* the string literals of the record are JSON text (UTF-8)
WellEncoded(e) ==
    e.el = "object" => \A i \in 1..Len(e.value.lit) : e.value.lit[i] # "xFF"

StructuralFaults == {i \in 1..Len(wire.elems) : ~IsRecord(wire.elems[i])}

SemanticFaults ==
    {i \in 1..Len(wire.elems) : IsRecord(wire.elems[i]) /\ ~ValidRecord(wire.elems[i])}

SemanticErrors == {"no value", "wanted string", "wanted json.Number", "strconv",
                   "unexpected step kind"}

\* C9 as stated: the error returned belongs to the fault at the smallest
\* position, structural or semantic.
C9_FirstFaultReported ==
    (Decoded /\ wire.top = "array" /\ StructuralFaults \cup SemanticFaults # {}) =>
        /\ err.pos = MinOf(StructuralFaults \cup SemanticFaults) - 1
        /\ err.type \in SemanticErrors
              <=> MinOf(StructuralFaults \cup SemanticFaults) \in SemanticFaults

\* C9 amended: errors are detected in two passes.  If any element does not
\* parse into a record, the error returned is the parser's, for the first
\* such element, whatever semantic faults come before it; otherwise the error
\* returned belongs to the semantic fault at the smallest position.
C9_TwoPassOrder ==
    (Decoded /\ wire.top = "array") =>
        IF StructuralFaults # {}
        THEN err = Error("UnmarshalTypeError", MinOf(StructuralFaults) - 1, "")
        ELSE IF SemanticFaults # {}
        THEN err.pos = MinOf(SemanticFaults) - 1 /\ err.type \in SemanticErrors
        ELSE err = NoError

C9_Witness ==
    /\ Decoded
    /\ wire = JArray(<<JRecord(JString(<<"bogus">>), JAbsent), JElement("number")>>)
    /\ err = Error("UnmarshalTypeError", 1, "")

\* ------------------------------------------------- claims about Pointers
PointerBuilt == pc.op \in {"NewBodyPointer", "NewURLPointer", "NewHeaderPointer"}

\* a segment with ~ written ~0 and / written ~1
RECURSIVE EscapedSegment(_)
EscapedSegment(seg) ==
    IF seg = <<>> THEN <<>>
    ELSE (CASE Head(seg) = "~" -> <<"~", "0">>
            [] Head(seg) = "/" -> <<"~", "1">>
            [] OTHER -> <<Head(seg)>>) \o EscapedSegment(Tail(seg))

\* "/" and the escaped segment, for every segment in turn
RECURSIVE ExpectedPath(_)
ExpectedPath(segments) ==
    IF segments = <<>> THEN <<>>
    ELSE <<"/">> \o EscapedSegment(Head(segments)) \o ExpectedPath(Tail(segments))

CountOf(s, c) == Cardinality({i \in 1..Len(s) : s[i] = c})

\* C10: pointer paths are unambiguous.  The Path of a Pointer is empty for no
\* segments and otherwise "/" followed by the segments, each escaped (~ as
\* ~0, / as ~1), joined with "/"; it holds as many "/" as there are segments;
\* no other list of segments gives the same Path; Field is body, url or
\* header by constructor.
C10_PointerPathUnambiguous ==
    PointerBuilt =>
        /\ ptr.Path = ExpectedPath(segs)
        /\ CountOf(ptr.Path, "/") = Len(segs)
        /\ \A other \in SegmentLists :
              other # segs => buildPointerPath(other) # ptr.Path
        /\ ptr.Field = CASE pc.op = "NewBodyPointer" -> "body"
                         [] pc.op = "NewURLPointer" -> "url"
                         [] pc.op = "NewHeaderPointer" -> "header"

C10_Witness ==
    /\ pc.op = "NewURLPointer"
    /\ segs = << <<"~", "1">>, <<"/">> >>
    /\ ptr = [Field |-> "url", Path |-> <<"/", "~", "0", "1", "/", "~", "1">>]

====
